---- MODULE Spec2Model ----
(***************************************************************************)
(* State-machine model of DmmApiClient (src/src/client.ts): the request    *)
(* executor with its query string, retry loop, per-attempt timeout timer   *)
(* and exponential backoff, and the getAllItems pagination generator built *)
(* on top of it; of getItemById of DmmApiHelperClient                      *)
(* (src/src/helperClient.ts), which delegates to getItemList; of the       *)
(* constructor; and of two invocations that run concurrently on one client.*)
(*                                                                         *)
(* One action is one run-to-completion step of the JavaScript event loop:  *)
(* the code from one await (or timer callback) to the next.  Time is       *)
(* abstracted to the armed timers: Advance lets time pass up to the next   *)
(* timer deadline, and a timer whose remaining time is 0 fires.            *)
(*                                                                         *)
(* Texts (error messages, server messages) are sequences of word tokens;   *)
(* template literals are concatenations of token sequences and             *)
(* String.prototype.includes is a search for a token subsequence.          *)
(***************************************************************************)
EXTENDS Integers, Sequences, FiniteSets, TLC

VARIABLES
    clientOptions,  \* the options object passed to new DmmApiClient(options)
    construction,   \* how the constructor ended: with a client, or with a throw
    cfg,            \* the client's readonly fields
    pc,             \* position of the request invocation
    endpoint,       \* request(): endpoint argument
    attempts,       \* request(): let attempts
    self,           \* which of the client's concurrent invocations is running: 1 or 2
    other,          \* the locals and history of the invocation that is not running
    controller,     \* request(): the current attempt's AbortController: [id, aborted]
    timeoutId,      \* request(): the current attempt's timeout timer
    backoff,        \* request(): the pending backoff timer (setTimeout(resolve, delay))
    response,       \* request(): the Response the current attempt resolved with
    outcome,        \* what the invocation delivered to its caller
    calls,          \* history: number of fetch() calls of this invocation
    waits,          \* history: the delays passed to the backoff setTimeout
    waited,         \* history: the time that really passed in each finished backoff
    elapsed,        \* history: time passed since the pending backoff timer was armed
    params,         \* request(): params argument
    url,            \* request(): const url, with the query string built from params
    requested,      \* history: the URL passed to each fetch() call of this invocation
    gpc,            \* position of the getAllItems generator
    gparams,        \* getAllItems(): params argument
    requestParams,  \* getAllItems(): const requestParams
    currentOffset,  \* getAllItems(): let currentOffset
    totalCount,     \* getAllItems(): let totalCount
    page,           \* getAllItems(): const response, the page being yielded
    idx,            \* getAllItems(): position of the for-of loop in page.items
    gout,           \* what the generator delivered when it ended
    yielded,        \* history: the items delivered to the consumer, in order
    offsets,        \* history: the offset of every page fetch, in order
    pagesServed,   \* history: number of page fetches that returned a page
    answers,        \* history: what the driver read of each page returned, in order
    recordsServed,  \* history: number of records in the pages returned so far
    wellFormed,     \* history: every page so far was non-empty and started at the offset asked for
    pulls,          \* history: number of next() calls of the consumer
    hpc,            \* position of the getItemById invocation
    hcid,           \* getItemById(): cid argument
    hoptions,       \* getItemById(): options argument
    hparams,        \* getItemById(): const params
    hout,           \* what getItemById delivered to its caller
    recording,      \* whether the run's history is kept (fixed for a run)
    netCalls,       \* history: number of fetch() calls of the whole run
    log             \* history: how each fetch of this invocation settled, in order

reqVars == <<pc, endpoint, attempts, controller, timeoutId, backoff, response,
             outcome, calls, waits, waited, elapsed, params, url, requested, netCalls, log>>
genVars == <<gpc, gparams, requestParams, currentOffset, totalCount, page, idx, gout, yielded,
             offsets, pagesServed, answers, recordsServed, wellFormed, pulls>>
helperVars == <<hpc, hcid, hoptions, hparams, hout>>
callerVars == <<genVars, helperVars>>
client == <<clientOptions, construction, cfg, recording, self>>
fixed == <<client, other>>
vars == <<fixed, reqVars, callerVars>>

----------------------------------------------------------------------------
(* Bounds of the model *)

\* largest maxRetries option a caller passes explicitly (the default is 3)
MaxRetriesBound == 2
\* largest maxRetries of a client that getAllItems is run on
MaxPagingRetries == 1
\* largest total_count the server announces
MaxTotal == 3
\* largest number of records the server puts into one page
MaxPageLen == 2
\* largest number of page fetches of one getAllItems run
MaxFetches == 3

(* Program constants *)
DefaultTimeout == 10000
DefaultMaxRetries == 3
DefaultRetryDelay == 1000
\* option values the test-suite constructs its client with
TestTimeout == 500
TestRetryDelay == 50

----------------------------------------------------------------------------
(* Texts *)

\* String.prototype.toLowerCase on one token
LowerToken(w) ==
    CASE w = "Aborted" -> "aborted"
      [] w = "The" -> "the"
      [] w = "This" -> "this"
      [] OTHER -> w

toLowerCase(s) == [i \in 1..Len(s) |-> LowerToken(s[i])]

\* String.prototype.includes
includes(s, pat) ==
    \E i \in 0..(Len(s) - Len(pat)) : SubSeq(s, i + 1, i + Len(pat)) = pat

\* String(n) / template-literal interpolation of a number
String(n) == ToString(n)

----------------------------------------------------------------------------
(* Client construction *)

\* An optional option is <<>> when absent and <<v>> when given.
Given(n) == <<n>>

\* the credentials the test-suite constructs its client with
TestApiId == "test-api-id"
TestAffiliateId == "test-affiliate-id"

\* A URL text is the sequence of its pieces: the scheme, "://", the host and
\* the path segments, a trailing "/" being a piece of its own.
\* line 39
baseUrl == <<"https", "://", "api.dmm.com", "/affiliate", "/v3">>

\* the baseUrl values the test-suite constructs clients with
CustomBaseUrl == <<"https", "://", "custom.example.com", "/api">>
CustomBaseUrlWithSlash == CustomBaseUrl \o <<"/">>
HttpBaseUrl == <<"http", "://", "example.com">>
FtpBaseUrl == <<"ftp", "://", "example.com">>
InvalidUrlText == <<"invalid-url">>
EmptyText == <<>>

\* the options of the clients that make requests
OptionsSet ==
    [apiId       : {<<TestApiId>>},
     affiliateId : {<<TestAffiliateId>>},
     baseUrl     : {<<>>},
     timeout     : {<<>>, <<TestTimeout>>},
     maxRetries  : {<<>>} \cup {Given(n) : n \in 0..MaxRetriesBound},
     retryDelay  : {<<>>, <<TestRetryDelay>>}]

\* options.x || d
OrDefault(o, d) == IF o = <<>> \/ o[1] = 0 THEN d ELSE o[1]

NullishDefault_falsy(o, d) == IF o = <<>> \/ o[1] = 0 THEN d ELSE o[1]
\* options.x ?? d
NullishDefault(o, d) == IF o = <<>> THEN d ELSE o[1]

credentialsMissing_absentOnly(o) == o.apiId = <<>> \/ o.affiliateId = <<>>
\* line 59: !options.apiId || !options.affiliateId
credentialsMissing(o) ==
    \/ o.apiId = <<>> \/ o.apiId[1] = ""
    \/ o.affiliateId = <<>> \/ o.affiliateId[1] = ""

\* line 60
CredentialsRequiredMessage ==
    <<"API", "ID", "and", "Affiliate", "ID", "are", "required">>

\* new URL(text) succeeds: the text has a scheme, "://" and a host
parsesAsUrl(text) == Len(text) >= 3 /\ text[2] = "://" /\ text[3] # ""

validBaseUrl_anyScheme(text) == parsesAsUrl(text)
\* a supplied baseUrl is accepted when it is a well-formed http or https URL
validBaseUrl(text) == parsesAsUrl(text) /\ text[1] \in {"http", "https"}

InvalidBaseUrlMessage ==
    <<"Invalid", "baseUrl", "must", "be", "a", "valid", "URL", "string", "or",
      "undefined">>

\* the trailing slash of a supplied baseUrl is normalised away
stripTrailingSlash(text) ==
    IF Len(text) >= 1 /\ text[Len(text)] = "/"
    THEN SubSeq(text, 1, Len(text) - 1) ELSE text

\* the base URL of the client: the supplied one, or the fixed production one
resolveBaseUrl(o) ==
    IF o.baseUrl = <<>> THEN baseUrl ELSE stripTrailingSlash(o.baseUrl[1])

\* a baseUrl was supplied and is not accepted
baseUrlRejected(o) == o.baseUrl # <<>> /\ ~validBaseUrl(o.baseUrl[1])

ClientBuilt == [kind |-> "client", message |-> <<>>]
ConstructionThrew(m) == [kind |-> "throw", message |-> m]

\* new DmmApiClient(options): how the constructor ends, lines 58-67, with the
\* baseUrl check of the revision that takes a baseUrl option
newDmmApiClient(o) ==
    IF credentialsMissing(o) THEN ConstructionThrew(CredentialsRequiredMessage)
    ELSE IF baseUrlRejected(o)
         THEN ConstructionThrew(InvalidBaseUrlMessage)
         ELSE ClientBuilt

\* constructor(options), lines 62-66: the fields of the client that is built
constructor(o) ==
    [apiId       |-> o.apiId[1],
     affiliateId |-> o.affiliateId[1],
     baseUrl     |-> resolveBaseUrl(o),
     timeout     |-> OrDefault(o.timeout, DefaultTimeout),
     maxRetries  |-> NullishDefault(o.maxRetries, DefaultMaxRetries),
     retryDelay  |-> OrDefault(o.retryDelay, DefaultRetryDelay)]

\* the fields variable while there is no client
NoClient ==
    [apiId |-> "", affiliateId |-> "", baseUrl |-> <<>>, timeout |-> 0,
     maxRetries |-> 0, retryDelay |-> 0]

\* the state after `new DmmApiClient(options)` for options drawn from os
Construct(os) ==
    /\ clientOptions \in os
    /\ construction = newDmmApiClient(clientOptions)
    /\ cfg = IF newDmmApiClient(clientOptions).kind = "client"
             THEN constructor(clientOptions) ELSE NoClient

----------------------------------------------------------------------------
(* The environment: what fetch and the server can answer *)

ItemListEndpoint == "/ItemList"
FloorListEndpoint == "/FloorList"
Endpoints == {ItemListEndpoint, FloorListEndpoint}

\* HTTP statuses the server answers with; Response.ok is 200..299
Statuses == {200, 404, 429, 499, 500, 503}
ok(status) == status >= 200 /\ status <= 299

\* free texts the server or the transport can produce
PlainText == <<"Bad", "Request">>
AbortedText == <<"Request", "Aborted", "by", "upstream">>
Texts == {PlainText, AbortedText}

\* the value under the envelope's result key: an ItemListResponse page, or
\* the {message} object of an error body.  message = <<>> is no message,
\* items = <<>> is no items key, items = <<s>> is the array s.
Payload(m, total, first, its) ==
    [message |-> m, total_count |-> total, first_position |-> first, items |-> its]

ErrorPayloads == {Payload(t, 0, 0, <<>>) : t \in Texts}

\* parsed JSON values of a body
JsonObject(res) == [type |-> "object", result |-> res]
JsonNull == [type |-> "null", result |-> <<>>]

\* bodies: JSON text of a value, text that is not JSON, a stream that breaks
JsonBody(d) == [kind |-> "json", data |-> d, text |-> <<>>]
TextBody(t) == [kind |-> "text", data |-> JsonNull, text |-> t]
BrokenBody == [kind |-> "broken", data |-> JsonNull, text |-> <<>>]

\* bodies around the payloads ps: the envelope, an object without result,
\* null, error objects, non-JSON texts (one empty), a broken stream
Bodies(ps) ==
    {JsonBody(JsonObject(<<p>>)) : p \in ps \cup ErrorPayloads}
        \cup {JsonBody(JsonObject(<<>>)), JsonBody(JsonNull), BrokenBody}
        \cup {TextBody(t) : t \in Texts \cup {<<>>}}

\* A Response.  stream = "oneShot" is the Fetch standard's body, which can be
\* read once; "replay" is a test double whose json() and text() are
\* independent functions (the two differ only when text() follows a failed json()).
Responses(ps) ==
    {[status |-> st, body |-> b, stream |-> "oneShot"] : st \in Statuses, b \in Bodies(ps)}
    \cup {[status |-> st, body |-> b, stream |-> "replay"] :
              st \in Statuses, b \in {TextBody(t) : t \in Texts \cup {<<>>}}}

statusText(status) == <<"StatusText", String(status)>>

\* error values
Error(m) == [name |-> "Error", message |-> m]
TypeError(m) == [name |-> "TypeError", message |-> m]
SyntaxError(m) == [name |-> "SyntaxError", message |-> m]
\* the DOMException an aborted fetch rejects with
AbortError == [name |-> "AbortError", message |-> <<"This", "operation", "was", "aborted">>]

\* what fetch itself rejects with when the transport fails
TransportErrors == {TypeError(<<"fetch", "failed">>),
                    TypeError(<<"socket", "connection", "aborted">>)}

\* timers
NoTimer == [armed |-> FALSE, remaining |-> 0]
Timer(ms) == [armed |-> TRUE, remaining |-> ms]

AbortController_perClient(t, n) == [id |-> <<0, 0>>, aborted |-> FALSE]
\* line 95: new AbortController() is an object of its own, here named by the
\* invocation t that created it and the number n of the fetch it is for
AbortController(t, n) == [id |-> <<t, n>>, aborted |-> FALSE]
\* placeholder of the controller variable outside the loop
NoController == [id |-> <<0, 0>>, aborted |-> FALSE]

\* controller.abort() for the controller named id, seen from an invocation
\* with locals f: its fetch is aborted if it was given that controller's signal
Abort(f, id) ==
    IF f.controller.id = id THEN [f EXCEPT !.controller.aborted = TRUE] ELSE f

\* placeholder of the response variable while no response has arrived
NoResponse == [status |-> 200, body |-> JsonBody(JsonNull), stream |-> "oneShot"]

NoOutcome == [kind |-> "none", value |-> Payload(<<>>, 0, 0, <<>>), message |-> <<>>]
Returned(v) == [kind |-> "return", value |-> v, message |-> <<>>]
Thrown(m) == [kind |-> "throw", value |-> Payload(<<>>, 0, 0, <<>>), message |-> m]

----------------------------------------------------------------------------
(* request(endpoint, params): the URL, lines 79-91 *)

\* A params object is a record over the keys below; a key whose value is <<>>
\* is absent, <<v>> is the value v.  hits and offset hold numbers, the other
\* keys strings or undefined.
ParamKeys == <<"api_id", "affiliate_id", "cid", "hits", "offset", "keyword">>
NumericKeys == {"hits", "offset"}
NoParams == [api_id |-> <<>>, affiliate_id |-> <<>>, cid |-> <<>>, hits |-> <<>>,
             offset |-> <<>>, keyword |-> <<>>]

\* the value undefined of a key that is present (no string a caller passes)
undefined == "<undefined>"

\* String(params[key]): a number is written in decimal, a string is itself,
\* undefined is written "undefined"
StringOf(key, v) ==
    IF key \in NumericKeys THEN String(v)
    ELSE IF v = undefined THEN "undefined" ELSE v

isDefined_ownKey(ps, key) == ps[key] # <<>>
\* lines 85-86: key is enumerated by `for (const key in params)` and
\* params[key] !== undefined
isDefined(ps, key) ==
    /\ ps[key] # <<>>
    /\ key \in NumericKeys \/ ps[key][1] # undefined

\* queryParams[key] = value on the queryParams object, whose entries are kept
\* in insertion order: an existing key keeps its place and gets the new value
SetEntry(q, key, value) ==
    IF \E i \in 1..Len(q) : q[i][1] = key
    THEN [i \in 1..Len(q) |-> IF q[i][1] = key THEN <<key, value>> ELSE q[i]]
    ELSE Append(q, <<key, value>>)

isCallerKey_any(key) == TRUE
\* line 86: the credential keys of the caller's params are skipped
isCallerKey(key) == key # "api_id" /\ key # "affiliate_id"

\* lines 85-89: the for-in loop over params, from key number i on
RECURSIVE CopyParams(_, _, _)
CopyParams(q, ps, i) ==
    IF i > Len(ParamKeys) THEN q
    ELSE LET key == ParamKeys[i] IN
         CopyParams(IF isCallerKey(key) /\ isDefined(ps, key)
                    THEN SetEntry(q, key, StringOf(key, ps[key][1]))
                    ELSE q,
                    ps, i + 1)

\* lines 80-89: the credentials first, then the caller's parameters
queryParams(ps) ==
    CopyParams(<<(<<"api_id", cfg.apiId>>), (<<"affiliate_id", cfg.affiliateId>>)>>, ps, 1)

\* lines 79, 90-91: the URL; URLSearchParams serialises every entry of
\* queryParams once, in order
Url(e, ps) == [base |-> cfg.baseUrl, path |-> e, search |-> queryParams(ps)]
NoUrl == [base |-> baseUrl, path |-> "", search |-> <<>>]

----------------------------------------------------------------------------
(* request(endpoint, params): messages *)

MissingResultMessage ==
    <<"Invalid", "API", "response", "format", "result", "field", "is", "missing">>

\* line 121
HttpErrorMessage(status, errorMessage) ==
    <<"API", "request", "to", endpoint, "failed", "with", "status", String(status),
      "after", String(attempts), "attempts">> \o errorMessage

TimeoutMessage_noEndpoint ==
    <<"API", "request", "timed", "out", "after", String(cfg.timeout), "ms">>
\* line 142
TimeoutMessage ==
    <<"API", "request", "to", endpoint, "timed", "out", "after",
      String(cfg.timeout), "ms">>

FinalMessage_countsCalls(originalErrorMessage) ==
    <<"Error", "during", "API", "request", "to", endpoint, "after",
      String(calls), "attempts">> \o originalErrorMessage
\* line 158
FinalMessage(originalErrorMessage) ==
    <<"Error", "during", "API", "request", "to", endpoint, "after",
      String(attempts), "attempts">> \o originalErrorMessage

\* line 162
UnexpectedEndMessage(e) ==
    <<"Reached", "end", "of", "request", "function", "unexpectedly", "after",
      String(cfg.maxRetries + 1), "attempts", "for", "endpoint", e>>

----------------------------------------------------------------------------
(* request(endpoint, params): the pieces of the retry loop *)

\* history is kept while the run is recorded
Record(h, x) == IF recording THEN Append(h, x) ELSE h
Count(n, k) == IF recording THEN n + k ELSE n

Throw_thenRetry(m) ==
    /\ outcome' = Thrown(m)
    /\ attempts' = attempts + 1
    /\ backoff' = [armed |-> TRUE, remaining |-> cfg.retryDelay]
    /\ waits' = Append(waits, cfg.retryDelay)
    /\ elapsed' = 0
    /\ pc' = "backoff"
\* a throw that leaves request(): the invocation ends with a rejection
Throw(m) ==
    /\ pc' = "done"
    /\ outcome' = Thrown(m)
    /\ UNCHANGED <<attempts, backoff, waits, elapsed>>

Delay_linear(n) == cfg.retryDelay * n
\* lines 113 and 150
Delay(n) == cfg.retryDelay * 2 ^ (n - 1)

\* lines 112-115 and 149-152: count the retry and wait before `continue`
Retry ==
    /\ attempts' = attempts + 1
    /\ backoff' = Timer(Delay(attempts + 1))
    /\ waits' = Append(waits, Delay(attempts + 1))
    /\ elapsed' = 0
    /\ pc' = "backoff"
    /\ UNCHANGED outcome

mayRetry_once_more(att) == att <= cfg.maxRetries
\* lines 111 and 148: attempts < this.maxRetries
mayRetry(att) == att < cfg.maxRetries

clearTimeout_forgotten(timer) == timer
\* lines 100 and 124: clearTimeout(timeoutId)
clearTimeout(timer) == [armed |-> FALSE, remaining |-> 0]

retryableStatus_only429(status) == status = 429
\* line 111
retryableStatus(status) == status = 429 \/ status >= 500

isTimeoutError_byNameOnly(error) == error.name = "TimeoutError"
\* lines 126-139
isTimeoutError(error) ==
    \/ error.name = "AbortError"
    \/ /\ error.message # <<>>
       /\ \/ includes(toLowerCase(error.message), <<"aborted">>)
          \/ includes(error.message, <<"The", "operation", "was", "aborted">>)

shouldRetryNetworkError_anyError(error) == TRUE
\* line 146
shouldRetryNetworkError(error) == error.name = "TypeError"

\* lines 123-159: the catch block, entered with the thrown value
Catch(error) ==
    /\ timeoutId' = clearTimeout(timeoutId)
    /\ IF isTimeoutError(error)
       THEN Throw(TimeoutMessage)
       ELSE IF shouldRetryNetworkError(error) /\ mayRetry(attempts)
            THEN Retry
            ELSE Throw(FinalMessage(error.message))

\* lines 94-99: the loop test, then a fresh controller, the timeout timer and
\* the fetch call; line 162 when the loop is left.  att is the value of
\* attempts, n the number of fetch calls made so far, e the endpoint, u the
\* URL and us the URLs fetched so far.
Iterate(att, n, e, u, us) ==
    IF att <= cfg.maxRetries
    THEN /\ controller' = AbortController(self, n + 1)
         /\ timeoutId' = Timer(cfg.timeout)
         /\ calls' = n + 1
         /\ netCalls' = Count(netCalls, 1)
         /\ requested' = Append(us, u)
         /\ pc' = "fetch"
         /\ outcome' = NoOutcome
    ELSE /\ pc' = "done"
         /\ outcome' = Thrown(UnexpectedEndMessage(e))
         /\ calls' = n
         /\ requested' = us
         /\ UNCHANGED <<controller, timeoutId, netCalls>>

\* lines 104-106: the envelope check on the parsed body
hasResult(data) == data.type = "object" /\ data.result # <<>>

resultOf_envelope(data) == data
\* line 107: data.result
resultOf(data) == data.result[1]

\* line 120: errorBody?.result?.message || (string ? errorBody : stringify) || statusText
errorMessageOfJson(data) ==
    IF data.type = "object" /\ data.result # <<>> /\ data.result[1].message # <<>>
    THEN data.result[1].message
    ELSE IF data.type = "null" THEN <<"null">> ELSE <<"{json}">>

errorMessageOfText(text, status) ==
    IF text # <<>> THEN text ELSE statusText(status)

jsonSyntaxError_asTypeError(text) == TypeError(<<"Unexpected", "token">> \o text)
\* what JSON.parse reports for a text that is no JSON: the message quotes the text
jsonSyntaxError(text) == SyntaxError(<<"Unexpected", "token">> \o text)

----------------------------------------------------------------------------
(* request(endpoint, params): the steps *)

\* the retries the client has made so far, over all its invocations
attemptsAtEntry_carriedOver == netCalls - Len(offsets)
\* line 93: let attempts = 0, a local of the invocation
attemptsAtEntry == 0

\* lines 78-99: request() is entered, builds the URL and runs the first
\* iteration of the loop up to the await of fetch
RequestEnter(e, ps) ==
    /\ construction.kind = "client"
    /\ endpoint' = e
    /\ params' = ps
    /\ url' = Url(e, ps)
    /\ attempts' = attemptsAtEntry
    /\ Iterate(attemptsAtEntry, 0, e, Url(e, ps), <<>>)
    /\ backoff' = NoTimer
    /\ waits' = <<>>
    /\ waited' = <<>>
    /\ elapsed' = 0
    /\ log' = <<>>
    /\ UNCHANGED response

\* how a fetch settles: with a response of one of three status classes, with a
\* transport failure, or aborted by the timeout timer
StatusClass(status) ==
    IF ok(status) THEN "2xx"
    ELSE IF status = 429 \/ status >= 500 THEN "429/5xx" ELSE "other"

\* line 99 resolves with a Response r; lines 100-116 up to the next await
FetchResolve(r) ==
    /\ pc = "fetch"
    /\ response' = r
    /\ log' = Append(log, StatusClass(r.status))
    /\ timeoutId' = clearTimeout(timeoutId)
    /\ IF ok(r.status)
       THEN /\ pc' = "json"
            /\ UNCHANGED <<attempts, backoff, waits, elapsed, outcome>>
       ELSE IF retryableStatus(r.status) /\ mayRetry(attempts)
            THEN Retry
            ELSE /\ pc' = "errorBody"
                 /\ UNCHANGED <<attempts, backoff, waits, elapsed, outcome>>
    /\ UNCHANGED <<fixed, endpoint, controller, calls, waited, params, url, requested,
                   netCalls, callerVars>>

\* line 99 rejects: the transport failed
FetchReject(error) ==
    /\ pc = "fetch"
    /\ log' = Append(log, "reject")
    /\ Catch(error)
    /\ UNCHANGED <<fixed, endpoint, controller, response, calls, waited, params, url,
                   requested, netCalls, callerVars>>

\* line 96: the timeout timer fires, controller.abort() makes the pending
\* fetch reject with an AbortError
TimeoutFire ==
    /\ timeoutId.armed
    /\ timeoutId.remaining = 0
    /\ controller' = [controller EXCEPT !.aborted = TRUE]
    /\ other' = Abort(other, controller.id)
    /\ IF pc = "fetch"
       THEN /\ log' = Append(log, "abort")
            /\ Catch(AbortError)
       ELSE /\ timeoutId' = NoTimer
            /\ UNCHANGED <<pc, attempts, backoff, waits, elapsed, outcome, log>>
    /\ UNCHANGED <<client, endpoint, response, calls, waited, params, url, requested,
                   netCalls, callerVars>>

\* lines 103-107: response.json() of a 2xx response settles
ResponseJson ==
    /\ pc = "json"
    /\ LET body == response.body IN
       CASE body.kind = "json" ->
              IF hasResult(body.data)
              THEN /\ pc' = "done"
                   /\ outcome' = Returned(resultOf(body.data))
                   /\ UNCHANGED <<attempts, backoff, waits, elapsed, timeoutId>>
              ELSE Catch(Error(MissingResultMessage))
         [] body.kind = "text" -> Catch(jsonSyntaxError(body.text))
         [] body.kind = "broken" -> Catch(TypeError(<<"terminated">>))
    /\ UNCHANGED <<fixed, endpoint, controller, response, calls, waited, params, url,
                   requested, netCalls, log, callerVars>>

\* lines 119-121: the error body is read (json(), else text()), the HTTP error
\* is thrown inside the try block and lands in the catch block
ResponseErrorBody ==
    /\ pc = "errorBody"
    /\ LET body == response.body IN
       CASE body.kind = "json" ->
              Catch(Error(HttpErrorMessage(response.status, errorMessageOfJson(body.data))))
         [] body.kind = "text" /\ response.stream = "replay" ->
              Catch(Error(HttpErrorMessage(response.status,
                                           errorMessageOfText(body.text, response.status))))
         [] body.kind = "text" /\ response.stream = "oneShot" ->
              Catch(TypeError(<<"Body", "is", "unusable">>))
         [] body.kind = "broken" -> Catch(TypeError(<<"terminated">>))
    /\ UNCHANGED <<fixed, endpoint, controller, response, calls, waited, params, url,
                   requested, netCalls, log, callerVars>>

\* line 114 / 151: the backoff timer fires, `continue` runs the next iteration
BackoffFire ==
    /\ pc = "backoff"
    /\ backoff.armed
    /\ backoff.remaining = 0
    /\ backoff' = NoTimer
    /\ waited' = Append(waited, elapsed)
    /\ Iterate(attempts, calls, endpoint, url, requested)
    /\ UNCHANGED <<fixed, endpoint, attempts, response, waits, elapsed, params, url, log,
                   callerVars>>

\* time passes, up to the next deadline of an armed timer of either invocation
ArmedTimers ==
    {t \in {timeoutId, backoff, other.timeoutId, other.backoff} : t.armed}
Advance ==
    /\ ArmedTimers # {}
    /\ \A t \in ArmedTimers : t.remaining > 0
    /\ LET d == CHOOSE d \in {t.remaining : t \in ArmedTimers} :
                    \A t \in ArmedTimers : d <= t.remaining
           Pass(t) == IF t.armed THEN [t EXCEPT !.remaining = @ - d] ELSE t
       IN /\ timeoutId' = Pass(timeoutId)
          /\ backoff' = Pass(backoff)
          /\ elapsed' = IF backoff.armed THEN elapsed + d ELSE elapsed
          /\ other' = [other EXCEPT
                          !.timeoutId = Pass(@),
                          !.backoff = Pass(@),
                          !.elapsed = IF other.backoff.armed THEN @ + d ELSE @]
    /\ UNCHANGED <<client, pc, endpoint, attempts, controller, response, outcome, calls,
                   waits, waited, params, url, requested, netCalls, log, callerVars>>

----------------------------------------------------------------------------
(* Direct calls of the per-endpoint methods *)

\* credential values a caller may put into its own params object
RogueApiId == "callers-api-id"
RogueAffiliateId == "callers-affiliate-id"

\* the params a direct caller of getItemList passes: a page window with a
\* keyword, or with credential keys of its own and a keyword that is undefined
DirectParams ==
    {[NoParams EXCEPT !.hits = <<10>>, !.offset = <<1>>, !.keyword = <<"test">>],
     [NoParams EXCEPT !.hits = <<10>>, !.offset = <<1>>, !.keyword = <<undefined>>,
                      !.api_id = <<RogueApiId>>, !.affiliate_id = <<RogueAffiliateId>>]}

\* pages the server holds for a direct call
DirectPayloads == {Payload(<<>>, 1, 1, <<(<<"a">>)>>), Payload(<<>>, 0, 0, <<>>)}

\* getItemList(params): lines 170-173
getItemList(ps) ==
    /\ pc = "idle"
    /\ RequestEnter(ItemListEndpoint, ps)
    /\ UNCHANGED <<fixed, callerVars>>

\* getFloorList(): lines 179-182
getFloorList ==
    /\ pc = "idle"
    /\ RequestEnter(FloorListEndpoint, NoParams)
    /\ UNCHANGED <<fixed, callerVars>>

----------------------------------------------------------------------------
(* getAllItems(params): the async generator, lines 236-286 *)

\* line 238
hitsPerPage == 100

\* The server's records are named by their position in the result list: a
\* page that starts at first_position f with n records carries f .. f+n-1.
Items(f, n) == [i \in 1..n |-> f + i - 1]

\* pages the server may answer when offset o is asked for: a total_count of 0,
\* 1 or MaxTotal, a first_position at or next to o, and no items key or an
\* array of 0, 1 or MaxPageLen records
ServerPages(o) ==
    UNION {{Payload(<<>>, t, f, its) :
                t \in {0, 1, MaxTotal},
                its \in {<<>>} \cup {<<Items(f, n)>> : n \in {0, 1, MaxPageLen}}} :
           f \in {o - 1, o, o + 1} \cap Nat}

\* the offset the server reads from the query (1 when the query has none)
QueryOffset == IF params.offset = <<>> THEN 1 ELSE params.offset[1]

\* the network answers a page fetch with a page
SuccessResponses(o) ==
    {[status |-> 200, body |-> JsonBody(JsonObject(<<p>>)), stream |-> "oneShot"] :
        p \in ServerPages(o)}

\* what the network answers a page fetch with: a page, or an error status
PagingResponses(o) ==
    SuccessResponses(o)
    \cup {[status |-> st, body |-> JsonBody(JsonObject(<<Payload(PlainText, 0, 0, <<>>)>>)),
           stream |-> "oneShot"] : st \in {404, 503}}

\* the params a caller of getAllItems passes: a search keyword, alone or
\* together with hits and offset values of its own
TestKeyword == "test"
CallerParams ==
    {[NoParams EXCEPT !.keyword = <<TestKeyword>>],
     [NoParams EXCEPT !.keyword = <<TestKeyword>>, !.hits = <<5>>, !.offset = <<7>>]}

NoGenOutcome == [kind |-> "none", message |-> <<>>, cause |-> <<>>]
GenReturned == [kind |-> "return", message |-> <<>>, cause |-> <<>>]
\* the consumer closed the generator with return() while it was suspended
GenClosed == [kind |-> "closed", message |-> <<>>, cause |-> <<>>]
GenThrown_atNextOffset(offset, causeMessage) ==
    [kind |-> "throw",
     message |-> <<"Error", "in", "getAllItems", "at", "offset", String(offset + hitsPerPage)>>
                     \o causeMessage,
     cause |-> causeMessage]
\* lines 269-283: the enhanced error and its cause
GenThrown(offset, causeMessage) ==
    [kind |-> "throw",
     message |-> <<"Error", "in", "getAllItems", "at", "offset", String(offset)>>
                     \o causeMessage,
     cause |-> causeMessage]

loopCondition_oneMore(total, offset) == total = -1 \/ offset <= total + 1
\* line 247
loopCondition(total, offset) == total = -1 \/ offset <= total

totalAfter_latest(total, resp) == resp.total_count
\* lines 252-253: totalCount is set from the response while it is still -1
totalAfter(total, resp) == IF total = -1 THEN resp.total_count ELSE total

noResults_never(total) == FALSE
\* line 254
noResults(total) == total = 0

\* line 259
hasItems(resp) == resp.items # <<>> /\ Len(resp.items[1]) > 0

pageExhausted_afterFirst(resp, i) == i >= 1
\* lines 260-262: the for-of loop has passed the last item of the page
pageExhausted(resp, i) == i = Len(resp.items[1])

nextOffset_byPageSize(resp) == resp.first_position + hitsPerPage
nextOffset_fromRequested(resp) == currentOffset + Len(resp.items[1])
\* line 263
nextOffset(resp) == resp.first_position + Len(resp.items[1])

PageWindow_callerWins(ps, offset) ==
    [ps EXCEPT !.hits = IF ps.hits = <<>> THEN <<hitsPerPage>> ELSE ps.hits,
               !.offset = IF ps.offset = <<>> THEN <<offset>> ELSE ps.offset]
\* lines 241-245 and 248: { ...params, hits: hitsPerPage, offset: currentOffset }
PageWindow(ps, offset) == [ps EXCEPT !.hits = <<hitsPerPage>>, !.offset = <<offset>>]

\* lines 248-250: the offset is written into requestParams (rp) and
\* getItemList is called with it
FetchPage(rp, offset) ==
    /\ requestParams' = PageWindow(rp, offset)
    /\ RequestEnter(ItemListEndpoint, PageWindow(rp, offset))
    /\ offsets' = Record(offsets, offset)
    /\ gpc' = "awaitPage"

\* lines 255, 286: the generator function returns
GeneratorEnd ==
    /\ gpc' = "done"
    /\ gout' = GenReturned

Break_throws ==
    /\ gpc' = "done"
    /\ gout' = GenThrown(currentOffset, <<"empty", "page">>)
\* line 265: break leaves the loop and the function returns
Break == GeneratorEnd

\* getAllItems(params) and the consumer's first pull: generator.next() runs
\* lines 237-250
getAllItems(ps) ==
    /\ pc = "idle"
    /\ gpc = "start"
    /\ Len(offsets) < MaxFetches
    /\ pulls' = Count(pulls, 1)
    /\ gparams' = ps
    /\ currentOffset' = 1
    /\ totalCount' = -1
    /\ FetchPage(ps, 1)
    /\ UNCHANGED <<page, idx, gout, yielded, pagesServed, answers, recordsServed, wellFormed>>
    /\ UNCHANGED <<fixed, helperVars>>

\* the consumer pulls: generator.next() on the generator suspended at the
\* yield of line 261.  The for-of loop goes on (lines 260-262); after the last
\* item line 263 and the loop test of line 247 follow.
GeneratorNext ==
    /\ pc = "idle"
    /\ gpc = "yield"
    /\ pulls' = Count(pulls, 1)
    /\ \/ /\ ~pageExhausted(page, idx)
          /\ idx' = idx + 1
          /\ yielded' = Record(yielded, page.items[1][idx + 1])
          /\ UNCHANGED <<gpc, gparams, requestParams, currentOffset, totalCount, page,
                         gout, offsets, pagesServed, answers, recordsServed, wellFormed, reqVars>>
       \/ /\ pageExhausted(page, idx)
          /\ currentOffset' = nextOffset(page)
          /\ IF loopCondition(totalCount, nextOffset(page))
             THEN /\ Len(offsets) < MaxFetches
                  /\ FetchPage(requestParams, nextOffset(page))
                  /\ UNCHANGED gout
             ELSE /\ GeneratorEnd
                  /\ UNCHANGED <<requestParams, offsets, reqVars>>
          /\ UNCHANGED <<gparams, totalCount, page, idx, yielded, pagesServed, answers,
                         recordsServed, wellFormed>>
    /\ UNCHANGED <<fixed, helperVars>>

\* the consumer stops: generator.return() on the generator suspended at the
\* yield of line 261 (what leaving a for-await loop does) ends it there
ConsumerReturn ==
    /\ pc = "idle"
    /\ gpc = "yield"
    /\ gpc' = "done"
    /\ gout' = GenClosed
    /\ UNCHANGED <<gparams, requestParams, currentOffset, totalCount, page, idx, yielded,
                   offsets, pagesServed, answers, recordsServed, wellFormed, pulls>>
    /\ UNCHANGED <<fixed, reqVars, helperVars>>

\* the settled invocation's locals and its history no longer exist
RequestFrameGone ==
    /\ endpoint' = ItemListEndpoint
    /\ params' = NoParams
    /\ url' = NoUrl
    /\ requested' = <<>>
    /\ attempts' = 0
    /\ controller' = NoController
    /\ response' = NoResponse
    /\ outcome' = NoOutcome
    /\ calls' = 0
    /\ waits' = <<>>
    /\ waited' = <<>>
    /\ elapsed' = 0
    /\ log' = <<>>

\* what the driver reads of the n-th page it is answered: where the page
\* starts and the records it holds, and of the first page the total_count
Answer(resp, n) ==
    [first_position |-> resp.first_position, items |-> resp.items,
     total_count |-> IF n = 1 THEN <<resp.total_count>> ELSE <<>>]

\* the awaited getItemList settles: lines 252-266 with the page it returned,
\* lines 268-284 with the error it threw.  The request invocation is over.
PageSettled ==
    /\ gpc = "awaitPage"
    /\ pc = "done"
    /\ pc' = "idle"
    /\ IF outcome.kind = "return"
       THEN LET resp == outcome.value
                total == totalAfter(totalCount, resp)
            IN /\ totalCount' = total
               /\ pagesServed' = Count(pagesServed, 1)
               /\ answers' = Record(answers, Answer(resp, Len(answers) + 1))
               /\ recordsServed' = Count(recordsServed,
                                         IF resp.items = <<>> THEN 0 ELSE Len(resp.items[1]))
               /\ wellFormed' = (wellFormed /\ hasItems(resp)
                                    /\ resp.first_position = currentOffset)
               /\ IF totalCount = -1 /\ noResults(total)
                  THEN /\ GeneratorEnd
                       /\ UNCHANGED <<page, idx, yielded>>
                  ELSE IF hasItems(resp)
                       THEN /\ page' = resp
                            /\ idx' = 1
                            /\ yielded' = Record(yielded, resp.items[1][1])
                            /\ gpc' = "yield"
                            /\ UNCHANGED gout
                       ELSE /\ Break
                            /\ UNCHANGED <<page, idx, yielded>>
       ELSE /\ gpc' = "done"
            /\ gout' = GenThrown(currentOffset, outcome.message)
            /\ UNCHANGED <<totalCount, page, idx, yielded, pagesServed, answers, recordsServed,
                         wellFormed>>
    /\ RequestFrameGone
    /\ UNCHANGED <<fixed, gparams, requestParams, currentOffset, offsets, pulls, timeoutId,
                   backoff, netCalls, helperVars>>

----------------------------------------------------------------------------
(* Two invocations on one client.  JavaScript runs one continuation at a   *)
(* time: the variables above hold the locals of the invocation whose       *)
(* continuation runs, `other` those of the invocation that waits.          *)

\* the locals and history of the running invocation: lines 78-96 of request()
\* and lines 237-250 of getAllItems()
Frame ==
    [self |-> self, pc |-> pc, endpoint |-> endpoint, params |-> params, url |-> url,
     requested |-> requested, attempts |-> attempts, controller |-> controller,
     timeoutId |-> timeoutId, backoff |-> backoff, response |-> response,
     outcome |-> outcome, calls |-> calls, waits |-> waits, waited |-> waited,
     elapsed |-> elapsed, log |-> log, gpc |-> gpc, gparams |-> gparams,
     requestParams |-> requestParams, currentOffset |-> currentOffset,
     totalCount |-> totalCount, page |-> page, idx |-> idx, gout |-> gout,
     yielded |-> yielded, offsets |-> offsets, pagesServed |-> pagesServed,
     answers |-> answers, recordsServed |-> recordsServed, wellFormed |-> wellFormed,
     pulls |-> pulls]

ownTotal_clientField(f) == totalCount
\* line 239: `let totalCount` is a local of the generator invocation, so the
\* invocation that runs again finds the value it left
ownTotal(f) == f.totalCount

\* the event loop turns to a continuation of the other invocation
Switch ==
    /\ other' = Frame
    /\ self' = other.self
    /\ pc' = other.pc
    /\ endpoint' = other.endpoint
    /\ params' = other.params
    /\ url' = other.url
    /\ requested' = other.requested
    /\ attempts' = other.attempts
    /\ controller' = other.controller
    /\ timeoutId' = other.timeoutId
    /\ backoff' = other.backoff
    /\ response' = other.response
    /\ outcome' = other.outcome
    /\ calls' = other.calls
    /\ waits' = other.waits
    /\ waited' = other.waited
    /\ elapsed' = other.elapsed
    /\ log' = other.log
    /\ gpc' = other.gpc
    /\ gparams' = other.gparams
    /\ requestParams' = other.requestParams
    /\ currentOffset' = other.currentOffset
    /\ totalCount' = ownTotal(other)
    /\ page' = other.page
    /\ idx' = other.idx
    /\ gout' = other.gout
    /\ yielded' = other.yielded
    /\ offsets' = other.offsets
    /\ pagesServed' = other.pagesServed
    /\ answers' = other.answers
    /\ recordsServed' = other.recordsServed
    /\ wellFormed' = other.wellFormed
    /\ pulls' = other.pulls
    /\ UNCHANGED <<clientOptions, construction, cfg, recording, netCalls, helperVars>>

----------------------------------------------------------------------------
(* getItemById(cid, options): src/src/helperClient.ts, lines 129-150 *)

\* content ids a caller asks for
TestCid == "testitem123"
OtherCid == "other-cid"
Cids == {TestCid, OtherCid}

\* the options a caller of getItemById passes: none, a search keyword, or
\* cid, hits and offset values of its own
HelperOptions ==
    {NoParams,
     [NoParams EXCEPT !.keyword = <<TestKeyword>>],
     [NoParams EXCEPT !.cid = <<OtherCid>>, !.hits = <<5>>, !.offset = <<7>>]}

ItemParams_callerWins(cid, options) ==
    [options EXCEPT !.cid = IF options.cid = <<>> THEN <<cid>> ELSE options.cid,
                    !.hits = IF options.hits = <<>> THEN <<1>> ELSE options.hits,
                    !.offset = IF options.offset = <<>> THEN <<1>> ELSE options.offset]
\* lines 130-135: { ...options, cid: cid, hits: 1, offset: 1 }
ItemParams(cid, options) == [options EXCEPT !.cid = <<cid>>, !.hits = <<1>>, !.offset = <<1>>]

\* what getItemById delivers: item = <<>> is null, <<r>> the record r
NoItemOutcome == [kind |-> "none", item |-> <<>>, message |-> <<>>]
ItemReturned(it) == [kind |-> "return", item |-> it, message |-> <<>>]

\* lines 138-141: the first record of the response, or null
firstItemOrNull(resp) == IF hasItems(resp) THEN <<resp.items[1][1]>> ELSE <<>>

\* lines 142-148: the catch block logs the error and returns null
onItemListError(message) == ItemReturned(<<>>)

\* lines 129-137: getItemById is called and awaits getItemList(params)
getItemById(cid, options) ==
    /\ pc = "idle"
    /\ hpc = "idle"
    /\ hcid' = cid
    /\ hoptions' = options
    /\ hparams' = ItemParams(cid, options)
    /\ RequestEnter(ItemListEndpoint, ItemParams(cid, options))
    /\ hpc' = "await"
    /\ UNCHANGED <<fixed, genVars, hout>>

\* lines 137-149: the awaited getItemList settles
ItemByIdSettled ==
    /\ hpc = "await"
    /\ pc = "done"
    /\ hpc' = "done"
    /\ hout' = IF outcome.kind = "return"
               THEN ItemReturned(firstItemOrNull(outcome.value))
               ELSE onItemListError(outcome.message)
    /\ UNCHANGED <<fixed, reqVars, genVars, hcid, hoptions, hparams>>

----------------------------------------------------------------------------
(* Specification of one direct call on a freshly constructed client *)

\* the state before any method of the client is called
\* the locals and history of an invocation that has not started
IdleFrame ==
    [self |-> 2, pc |-> "idle", endpoint |-> ItemListEndpoint, params |-> NoParams,
     url |-> NoUrl, requested |-> <<>>, attempts |-> 0, controller |-> NoController,
     timeoutId |-> NoTimer, backoff |-> NoTimer, response |-> NoResponse,
     outcome |-> NoOutcome, calls |-> 0, waits |-> <<>>, waited |-> <<>>,
     elapsed |-> 0, log |-> <<>>, gpc |-> "start", gparams |-> NoParams,
     requestParams |-> NoParams, currentOffset |-> 1, totalCount |-> -1,
     page |-> Payload(<<>>, 0, 0, <<>>), idx |-> 0, gout |-> NoGenOutcome,
     yielded |-> <<>>, offsets |-> <<>>, pagesServed |-> 0, answers |-> <<>>,
     recordsServed |-> 0, wellFormed |-> TRUE, pulls |-> 0]

Fresh ==
    /\ self = 1
    /\ other = IdleFrame
    /\ pc = "idle"
    /\ endpoint = ItemListEndpoint
    /\ params = NoParams
    /\ url = NoUrl
    /\ requested = <<>>
    /\ attempts = 0
    /\ controller = NoController
    /\ timeoutId = NoTimer
    /\ backoff = NoTimer
    /\ response = NoResponse
    /\ outcome = NoOutcome
    /\ calls = 0
    /\ waits = <<>>
    /\ waited = <<>>
    /\ elapsed = 0
    /\ netCalls = 0
    /\ log = <<>>
    /\ gpc = "start"
    /\ gparams = NoParams
    /\ requestParams = NoParams
    /\ currentOffset = 1
    /\ totalCount = -1
    /\ page = Payload(<<>>, 0, 0, <<>>)
    /\ idx = 0
    /\ gout = NoGenOutcome
    /\ yielded = <<>>
    /\ offsets = <<>>
    /\ pagesServed = 0
    /\ answers = <<>>
    /\ recordsServed = 0
    /\ wellFormed = TRUE
    /\ pulls = 0
    /\ hpc = "idle"
    /\ hcid = TestCid
    /\ hoptions = NoParams
    /\ hparams = NoParams
    /\ hout = NoItemOutcome

Init ==
    /\ Construct(OptionsSet)
    /\ recording = TRUE
    /\ Fresh

Next ==
    \/ \E ps \in DirectParams : getItemList(ps)
    \/ getFloorList
    \/ \E r \in Responses(DirectPayloads) : FetchResolve(r)
    \/ \E error \in TransportErrors : FetchReject(error)
    \/ TimeoutFire
    \/ ResponseJson
    \/ ResponseErrorBody
    \/ BackoffFire
    \/ Advance

Spec == Init /\ [][Next]_vars

----------------------------------------------------------------------------
(* Specification of one getAllItems run: a consumer pulls from the generator *)

PagingOptions ==
    [apiId : {<<TestApiId>>}, affiliateId : {<<TestAffiliateId>>}, baseUrl : {<<>>},
     timeout : {<<TestTimeout>>},
     maxRetries : {Given(n) : n \in {0, MaxPagingRetries}},
     retryDelay : {<<TestRetryDelay>>}]

InitPaging ==
    /\ Construct(PagingOptions)
    /\ recording = TRUE
    /\ Fresh

NextPaging ==
    \/ \E ps \in CallerParams : getAllItems(ps)
    \/ GeneratorNext
    \/ ConsumerReturn
    \/ PageSettled
    \/ \E r \in PagingResponses(QueryOffset) : FetchResolve(r)
    \/ \E error \in TransportErrors : FetchReject(error)
    \/ TimeoutFire
    \/ ResponseJson
    \/ ResponseErrorBody
    \/ BackoffFire
    \/ Advance

SpecPaging == InitPaging /\ [][NextPaging]_vars

----------------------------------------------------------------------------
(* Specification of a getAllItems run that is drained: the consumer pulls   *)
(* until the generator ends and the server answers every page fetch with a *)
(* page, before the timeout.  No history is kept, so a run that goes on    *)
(* forever is a cycle of states.                                           *)

InitDraining ==
    /\ Construct(PagingOptions)
    /\ recording = FALSE
    /\ Fresh

NextDraining ==
    \/ \E ps \in CallerParams : getAllItems(ps)
    \/ GeneratorNext
    \/ PageSettled
    \/ \E r \in SuccessResponses(QueryOffset) : FetchResolve(r)
    \/ ResponseJson

\* the consumer keeps pulling, the server keeps answering and the event loop
\* runs every continuation that is ready
SpecDraining == InitDraining /\ [][NextDraining]_vars /\ WF_vars(NextDraining)

----------------------------------------------------------------------------
(* Specification of one getItemById call *)

NextHelper ==
    \/ \E cid \in Cids, options \in HelperOptions : getItemById(cid, options)
    \/ ItemByIdSettled
    \/ \E r \in PagingResponses(QueryOffset) : FetchResolve(r)
    \/ \E error \in TransportErrors : FetchReject(error)
    \/ TimeoutFire
    \/ ResponseJson
    \/ ResponseErrorBody
    \/ BackoffFire
    \/ Advance

SpecHelper == InitPaging /\ [][NextHelper]_vars

----------------------------------------------------------------------------
(* Specification of client construction: new DmmApiClient(options) for     *)
(* options with and without credentials, base URL, timeout, maxRetries and *)
(* retryDelay, followed by one getFloorList call if a client was built     *)

ConstructOptions ==
    [apiId       : {<<>>, <<"">>, <<TestApiId>>},
     affiliateId : {<<>>, <<"">>, <<TestAffiliateId>>},
     baseUrl     : {<<>>, <<EmptyText>>, <<InvalidUrlText>>, <<FtpBaseUrl>>,
                    <<HttpBaseUrl>>, <<CustomBaseUrlWithSlash>>},
     timeout     : {<<>>, <<0>>, <<TestTimeout>>},
     maxRetries  : {<<>>} \cup {Given(n) : n \in {0, MaxRetriesBound}},
     retryDelay  : {<<>>, <<0>>, <<TestRetryDelay>>}]

\* what the server answers the call with: the floor list, or status 503
ConstructResponses ==
    {[status |-> 200, body |-> JsonBody(JsonObject(<<Payload(<<>>, 0, 0, <<>>)>>)),
      stream |-> "oneShot"],
     [status |-> 503, body |-> JsonBody(JsonObject(<<Payload(PlainText, 0, 0, <<>>)>>)),
      stream |-> "oneShot"]}

InitConstruct ==
    /\ Construct(ConstructOptions)
    /\ recording = TRUE
    /\ Fresh

NextConstruct ==
    \/ getFloorList
    \/ \E r \in ConstructResponses : FetchResolve(r)
    \/ TimeoutFire
    \/ ResponseJson
    \/ ResponseErrorBody
    \/ BackoffFire
    \/ Advance

SpecConstruct == InitConstruct /\ [][NextConstruct]_vars

----------------------------------------------------------------------------
(* Specification of two concurrent request invocations on one client: each *)
(* is a getFloorList or getItemList call                                   *)

SiblingOptions ==
    [apiId : {<<TestApiId>>}, affiliateId : {<<TestAffiliateId>>}, baseUrl : {<<>>},
     timeout : {<<TestTimeout>>}, maxRetries : {Given(MaxPagingRetries)},
     retryDelay : {<<TestRetryDelay>>}]

InitSiblings ==
    /\ Construct(SiblingOptions)
    /\ recording = TRUE
    /\ Fresh

NextSiblings ==
    \/ \E ps \in DirectParams : getItemList(ps)
    \/ getFloorList
    \/ Switch
    \/ \E r \in ConstructResponses : FetchResolve(r)
    \/ TimeoutFire
    \/ ResponseJson
    \/ ResponseErrorBody
    \/ BackoffFire
    \/ Advance

SpecSiblings == InitSiblings /\ [][NextSiblings]_vars

----------------------------------------------------------------------------
(* Specification of two concurrent callers on one client: each is a        *)
(* getAllItems driver or a direct getItemList call, and the server answers *)
(* every fetch with a page                                                 *)

\* the pages the server answers with: at or after the offset asked for, with
\* an items array and a total_count of 1 or MaxTotal
DriverPages(o) ==
    {p \in ServerPages(o) :
        p.total_count >= 1 /\ p.first_position >= o /\ p.items # <<>>}

DriverResponses(o) ==
    {[status |-> 200, body |-> JsonBody(JsonObject(<<p>>)), stream |-> "oneShot"] :
        p \in DriverPages(o)}

\* what the callers pass: a keyword to getAllItems, a page window to getItemList
DriverParams == {[NoParams EXCEPT !.keyword = <<TestKeyword>>]}
WindowParams == {[NoParams EXCEPT !.hits = <<10>>, !.offset = <<1>>]}

NextDrivers ==
    \/ \E ps \in DriverParams : getAllItems(ps)
    \/ gpc = "start" /\ \E ps \in WindowParams : getItemList(ps)
    \/ GeneratorNext
    \/ PageSettled
    \/ Switch
    \/ \E r \in DriverResponses(QueryOffset) : FetchResolve(r)
    \/ ResponseJson

SpecDrivers == InitSiblings /\ [][NextDrivers]_vars

----------------------------------------------------------------------------
(* Specification of one direct call in which only the timers are sure to   *)
(* act: an armed timer fires when its time has passed, while the server    *)
(* may answer, fail, or stay silent at any point of a response             *)

TimerSteps == TimeoutFire \/ BackoffFire \/ Advance

SpecDeadline == InitSiblings /\ [][Next]_vars /\ WF_vars(TimerSteps)

----------------------------------------------------------------------------
(* Properties of request() *)

LastSettled == log[Len(log)]
AllSettled(class) == Len(log) >= 1 /\ \A i \in 1..Len(log) : log[i] = class

\* C1: a request whose every attempt completes with status 429 or 5xx never
\* makes more than 1 + maxRetries network calls, and when it ends it has made
\* exactly 1 + maxRetries calls and ends with an error.
C1_RetryableStatusExhaustsBudget ==
    AllSettled("429/5xx") =>
        /\ calls <= 1 + cfg.maxRetries
        /\ pc = "done" => /\ calls = 1 + cfg.maxRetries
                          /\ outcome.kind = "throw"

C1_Witness ==
    /\ pc = "done"
    /\ AllSettled("429/5xx")
    /\ cfg.maxRetries = 3
    /\ Len(log) = 4

\* C2: the n-th backoff wait of an invocation is retryDelay * 2^(n-1), that
\* much time really passes in it, and every network call after the first is
\* issued only when the wait before it has fully elapsed.
C2_ExponentialBackoff ==
    /\ Len(waits) = attempts
    /\ \A n \in 1..Len(waits) : waits[n] = cfg.retryDelay * 2 ^ (n - 1)
    /\ Len(waited) <= Len(waits)
    /\ \A n \in 1..Len(waited) : waited[n] = cfg.retryDelay * 2 ^ (n - 1)
    /\ calls >= 1 => calls = Len(waited) + 1
    /\ pc = "backoff" => /\ Len(waited) = Len(waits) - 1
                         /\ elapsed <= waits[Len(waits)]

C2_Witness ==
    /\ pc = "fetch"
    /\ Len(waited) = 3
    /\ waited[3] = 4 * cfg.retryDelay

\* C3 (as claimed): a request whose every fetch attempt is rejected with a
\* TypeError of the transport makes exactly 1 + maxRetries network calls and
\* ends with an error that carries the endpoint, the attempt count and the
\* message of the transport error.
C3_TransportErrorExhaustsBudget ==
    (pc = "done" /\ AllSettled("reject")) =>
        /\ calls = 1 + cfg.maxRetries
        /\ outcome.kind = "throw"
        /\ includes(outcome.message, <<"to", endpoint>>)
        /\ includes(outcome.message, <<"after", String(attempts), "attempts">>)
        /\ \E error \in TransportErrors : includes(outcome.message, error.message)

\* C4: a fetch aborted by the timeout timer ends the invocation with the
\* Timeout error and is its last network call; on the first attempt that is
\* exactly one call, whatever maxRetries is.
C4_TimeoutIsFinal ==
    \A i \in 1..Len(log) :
        log[i] = "abort" =>
            /\ i = Len(log)
            /\ pc = "done"
            /\ calls = i
            /\ outcome.kind = "throw"
            /\ outcome.message = <<"API", "request", "to", endpoint, "timed", "out",
                                   "after", String(cfg.timeout), "ms">>

C4_Witness ==
    /\ log = <<"abort">>
    /\ cfg.maxRetries = 3
    /\ calls = 1
    /\ pc = "done"

\* the message the server put into the body of the current response
ServerMessage ==
    LET body == response.body IN
    IF body.kind = "json"
    THEN IF body.data.type = "object" /\ body.data.result # <<>>
         THEN body.data.result[1].message ELSE <<>>
    ELSE body.text

\* C5 (as claimed): a response with a non-2xx status other than 429 and 5xx
\* is the only network call of its request, no backoff wait follows it, and
\* the request ends with an error carrying the status code and the server's
\* message.
C5_TerminalStatusOneCall ==
    (Len(log) >= 1 /\ log[1] = "other") =>
        /\ Len(log) = 1
        /\ calls = 1
        /\ waits = <<>>
        /\ pc \in {"errorBody", "done"}
        /\ pc = "done" =>
              /\ outcome.kind = "throw"
              /\ includes(outcome.message, <<"status", String(response.status)>>)
              /\ includes(outcome.message, ServerMessage)

\* C6: a 2xx response whose parsed body is no object with a result key ends
\* the invocation with the missing-result error; no retry and no backoff wait
\* follows it, so as the first response it is the only network call.
C6_MissingResultNotRetried ==
    (/\ Len(log) >= 1
     /\ LastSettled = "2xx"
     /\ response.body.kind = "json"
     /\ ~(response.body.data.type = "object" /\ response.body.data.result # <<>>)) =>
        /\ pc \in {"json", "done"}
        /\ calls = Len(log)
        /\ Len(waits) = Len(log) - 1
        /\ pc = "done" =>
              /\ outcome.kind = "throw"
              /\ includes(outcome.message, MissingResultMessage)

C6_Witness ==
    /\ log = <<"2xx">>
    /\ response.body = JsonBody(JsonObject(<<>>))
    /\ pc = "done"
    /\ calls = 1
    /\ cfg.maxRetries = 3

\* C7: a 2xx response whose body is not JSON ends the invocation with an
\* error at once: no retry and no backoff wait follows that attempt.
C7_UnparsableSuccessBodyNotRetried ==
    (/\ Len(log) >= 1
     /\ LastSettled = "2xx"
     /\ response.body.kind = "text") =>
        /\ pc \in {"json", "done"}
        /\ calls = Len(log)
        /\ Len(waits) = Len(log) - 1
        /\ pc = "done" => outcome.kind = "throw"

C7_Witness ==
    /\ log = <<"2xx">>
    /\ response.body.kind = "text"
    /\ pc = "done"
    /\ calls = 1
    /\ cfg.maxRetries = 3

\* C8 (as claimed): with maxRetries = 0 a 429, a 5xx or a transport error ends
\* the request after exactly one network call, without a backoff wait, with
\* an error whose message contains "after 0 attempts".
C8_NoRetriesAfterZeroAttempts ==
    (/\ cfg.maxRetries = 0
     /\ pc = "done"
     /\ Len(log) >= 1
     /\ log[1] \in {"429/5xx", "reject"}) =>
        /\ calls = 1
        /\ waits = <<>>
        /\ outcome.kind = "throw"
        /\ includes(outcome.message, <<"after", "0", "attempts">>)

\* C9: when call j is the first to get a 2xx response whose body carries a
\* result, after j - 1 retried failures, the invocation returns exactly that
\* result value and has made exactly j network calls.
C9_ReturnsResultOfFirstSuccess ==
    (/\ pc = "done"
     /\ Len(log) >= 1
     /\ LastSettled = "2xx"
     /\ response.body.kind = "json"
     /\ response.body.data.type = "object"
     /\ response.body.data.result # <<>>) =>
        /\ outcome = Returned(response.body.data.result[1])
        /\ calls = Len(log)
        /\ attempts = Len(log) - 1
        /\ \A i \in 1..(Len(log) - 1) : log[i] # "abort"

C9_Witness ==
    /\ pc = "done"
    /\ outcome.kind = "return"
    /\ outcome.value = Payload(<<>>, 1, 1, <<(<<"a">>)>>)
    /\ calls = 3
    /\ log = <<"429/5xx", "reject", "2xx">>

----------------------------------------------------------------------------
(* Properties of getAllItems() *)

\* C10: when every page the server answers is non-empty and starts at the
\* offset asked for (wellFormed), the records reach the consumer in page order
\* and in-page order; the run does not end before the pages' sizes reach the
\* total_count of the first page and fetches no page once they have; and when
\* the sizes sum to exactly that total_count, exactly total_count records are
\* yielded, with one page fetch per page.
C10_YieldsAllPagesInOrder ==
    wellFormed =>
        /\ \A i \in 1..Len(yielded) : yielded[i] = i
        /\ Len(yielded) <= recordsServed
        /\ (gpc = "awaitPage" /\ pagesServed >= 1) => recordsServed < totalCount
        /\ (gpc = "done" /\ gout.kind = "return" /\ pagesServed >= 1) =>
              /\ recordsServed >= totalCount
              /\ Len(offsets) = pagesServed
              /\ recordsServed = totalCount => Len(yielded) = totalCount

C10_Witness ==
    /\ wellFormed
    /\ gpc = "done"
    /\ gout.kind = "return"
    /\ pagesServed = 3
    /\ recordsServed = totalCount
    /\ yielded = <<1, 2, 3>>
    /\ offsets = <<1, 2, 3>>

\* C11: the first page fetch of a getAllItems run asks for offset 1, and while
\* the fetch of a later page is awaited, the offset it asks for is the
\* first_position the server reported for the page before it plus the number
\* of records of that page.
C11_OffsetFollowsServerPosition ==
    /\ Len(offsets) >= 1 => offsets[1] = 1
    /\ (gpc = "awaitPage" /\ Len(offsets) >= 1) =>
          /\ offsets[Len(offsets)] = currentOffset
          /\ params.offset = <<currentOffset>>
    /\ (gpc = "awaitPage" /\ Len(offsets) >= 2) =>
          offsets[Len(offsets)] = page.first_position + Len(page.items[1])

\* the server moved the window: the second fetch follows the reported
\* first_position, which is not the requested offset plus the count
C11_Witness ==
    /\ gpc = "awaitPage"
    /\ Len(offsets) = 2
    /\ page.first_position # offsets[1]
    /\ offsets[2] = page.first_position + Len(page.items[1])
    /\ offsets[2] # offsets[1] + Len(page.items[1])

\* C12: when the first page reports total_count = 0, the run has ended
\* normally after that single page fetch and has yielded nothing, whether or
\* not the page carried records.
C12_ZeroTotalEndsAtOnce ==
    (pagesServed >= 1 /\ totalCount = 0) =>
        /\ gpc = "done"
        /\ gout = GenReturned
        /\ yielded = <<>>
        /\ offsets = <<1>>
        /\ pagesServed = 1
        /\ pc = "idle"

C12_Witness ==
    /\ gpc = "done"
    /\ totalCount = 0
    /\ pagesServed = 1
    /\ recordsServed = MaxPageLen
    /\ yielded = <<>>

\* the page that the awaited getItemList has just returned has no records
\* and is not a first page that reports total_count = 0
EmptyPageArrived ==
    /\ gpc = "awaitPage"
    /\ pc = "done"
    /\ outcome.kind = "return"
    /\ (outcome.value.items = <<>> \/ Len(outcome.value.items[1]) = 0)
    /\ ~(totalCount = -1 /\ outcome.value.total_count = 0)

\* C13: when a page without records (items empty or missing) arrives, the
\* generator ends normally in that step, without an error, without another
\* page fetch or network call, and with the records yielded so far left as
\* they are; an ended generator issues no fetch.
C13_EmptyPageEndsNormally ==
    [][/\ EmptyPageArrived =>
            /\ gpc' = "done"
            /\ gout' = GenReturned
            /\ yielded' = yielded
            /\ offsets' = offsets
            /\ netCalls' = netCalls
       /\ gpc = "done" => UNCHANGED <<gout, yielded, offsets, netCalls>>]_vars

\* the run ended by the break: it returned although the loop test still holds
C13_Witness ==
    /\ gpc = "done"
    /\ gout = GenReturned
    /\ totalCount > 0
    /\ currentOffset <= totalCount
    /\ pagesServed = 2
    /\ Len(yielded) >= 1
    /\ Len(offsets) = 2

\* C14: when the awaited page fetch has thrown, the generator ends in that
\* step with an error whose message names the offset that was requested and
\* whose cause is the error of the request; the records yielded so far stay
\* as they are and no page fetch or network call follows.
C14_PageFailureIsWrapped ==
    [][/\ (gpc = "awaitPage" /\ pc = "done" /\ outcome.kind = "throw") =>
            /\ gpc' = "done"
            /\ gout'.kind = "throw"
            /\ gout'.cause = outcome.message
            /\ includes(gout'.message, <<"at", "offset", String(params.offset[1])>>)
            /\ includes(gout'.message, outcome.message)
            /\ yielded' = yielded
            /\ offsets' = offsets
            /\ netCalls' = netCalls
       /\ gout.kind = "throw" => UNCHANGED <<gpc, gout, yielded, offsets, netCalls>>]_vars

C14_Witness ==
    /\ gpc = "done"
    /\ gout.kind = "throw"
    /\ Len(offsets) = 2
    /\ Len(yielded) >= 1
    /\ includes(gout.message, <<"at", "offset", String(offsets[2])>>)
    /\ gout.cause # <<>>

\* C15 (as claimed): a getAllItems run whose consumer keeps pulling and whose
\* page fetches are all answered with pages comes to its end.
C15_DrainedRunEnds == <>(gpc = "done")

\* the values the query string of URL u carries for a key, in order
QueryValues(u, key) ==
    LET Is(entry) == entry[1] = key
        found == SelectSeq(u.search, Is)
    IN [i \in 1..Len(found) |-> found[i][2]]

\* C16: while a page fetch of getAllItems is under way, the params of the
\* getItemList call are the caller's params with hits replaced by 100 and
\* offset by the driver's current offset, and the query string of every
\* network call of that fetch carries hits=100, that offset and the caller's
\* keyword, each once.
C16_DriverOwnsPageWindow ==
    gpc = "awaitPage" =>
        /\ params = [gparams EXCEPT !.hits = <<100>>, !.offset = <<currentOffset>>]
        /\ \A i \in 1..Len(requested) :
              /\ QueryValues(requested[i], "hits") = <<"100">>
              /\ QueryValues(requested[i], "offset") = <<String(currentOffset)>>
              /\ QueryValues(requested[i], "keyword") = gparams.keyword
              /\ QueryValues(requested[i], "cid") = gparams.cid

\* the caller passed hits and offset of its own; the second page is fetched
C16_Witness ==
    /\ gpc = "awaitPage"
    /\ pc = "fetch"
    /\ gparams.hits = <<5>>
    /\ gparams.offset = <<7>>
    /\ Len(offsets) = 2
    /\ currentOffset = 3
    /\ QueryValues(requested[1], "offset") = <<"3">>
    /\ QueryValues(requested[1], "keyword") = <<TestKeyword>>

\* C17: a page fetch is issued only by a step that is a pull of the consumer,
\* one at a time; a network call happens only while a pull waits for a page;
\* when a page fetch is under way every record of the pages before it has
\* been pulled; at most one page fetch is unsettled; and a generator that has
\* ended (by itself or closed by the consumer) issues no fetch and no call.
C17_NoPrefetch ==
    /\ [](/\ gpc = "awaitPage" => Len(yielded) = recordsServed
          /\ Len(yielded) <= recordsServed
          /\ Len(offsets) - pagesServed - (IF gout.kind = "throw" THEN 1 ELSE 0)
                = (IF gpc = "awaitPage" THEN 1 ELSE 0)
          /\ pc # "idle" => gpc = "awaitPage")
    /\ [][/\ Len(offsets') > Len(offsets) =>
                /\ pulls' = pulls + 1
                /\ Len(offsets') = Len(offsets) + 1
          /\ netCalls' > netCalls => gpc' = "awaitPage"
          /\ gpc = "done" => UNCHANGED <<offsets, netCalls, pulls>>]_vars

\* the consumer stopped in the middle of the second page: the records of
\* that page it did not pull were never followed by a fetch
C17_Witness ==
    /\ gpc = "done"
    /\ gout = GenClosed
    /\ pagesServed = 2
    /\ Len(offsets) = 2
    /\ Len(yielded) < recordsServed
    /\ currentOffset <= totalCount

----------------------------------------------------------------------------
(* Properties of getItemById() *)

\* C18 (as claimed): when the getItemList call of getItemById has failed,
\* getItemById fails with that error and does not deliver null.
C18_FailurePropagates ==
    (hpc = "done" /\ outcome.kind = "throw") =>
        /\ hout.kind = "throw"
        /\ hout.message = outcome.message
        /\ hout # ItemReturned(<<>>)

\* C19: getItemById calls getItemList once: the call's params are the
\* caller's options with cid replaced by the given id, hits by 1 and offset
\* by 1, every network call carries these three in its query string, and no
\* second call is started after the first has ended.  When the call returned
\* a response, getItemById returns its first record if it has one and null
\* if it has none.
C19_ItemByIdDelegatesOnce ==
    /\ [](/\ hpc = "idle" <=> pc = "idle"
          /\ hpc # "idle" =>
                /\ endpoint = ItemListEndpoint
                /\ params = [hoptions EXCEPT !.cid = <<hcid>>, !.hits = <<1>>,
                                             !.offset = <<1>>]
                /\ \A i \in 1..Len(requested) :
                      /\ QueryValues(requested[i], "cid") = <<hcid>>
                      /\ QueryValues(requested[i], "hits") = <<"1">>
                      /\ QueryValues(requested[i], "offset") = <<"1">>
          /\ (hpc = "done" /\ outcome.kind = "return") =>
                LET its == outcome.value.items IN
                IF its # <<>> /\ Len(its[1]) >= 1
                THEN hout = ItemReturned(<<its[1][1]>>)
                ELSE hout = ItemReturned(<<>>))
    /\ [][/\ pc # "idle" => pc' # "idle"
          /\ pc = "done" => UNCHANGED <<pc, params, url, requested, calls, netCalls>>]_vars

\* the caller's options carried cid, hits and offset of their own; the
\* response had two records and the first was returned
C19_Witness ==
    /\ hpc = "done"
    /\ hoptions.cid = <<OtherCid>>
    /\ hoptions.hits = <<5>>
    /\ hcid = TestCid
    /\ outcome.kind = "return"
    /\ outcome.value.items = <<(<<1, 2>>)>>
    /\ hout = ItemReturned(<<1>>)

----------------------------------------------------------------------------
(* Properties of the request URL *)

\* C20: the URL of every network call of an invocation, the first attempt
\* and every retry, carries api_id and affiliate_id exactly once each, with
\* the credentials the client was constructed with, whatever the caller's
\* params hold under these keys.
C20_CredentialsOnceAndConfigured ==
    /\ Len(requested) = calls
    /\ \A i \in 1..Len(requested) :
          /\ QueryValues(requested[i], "api_id") = <<cfg.apiId>>
          /\ QueryValues(requested[i], "affiliate_id") = <<cfg.affiliateId>>

\* the caller passed credential keys of its own and the call is in its
\* second retry
C20_Witness ==
    /\ pc = "fetch"
    /\ params.api_id = <<RogueApiId>>
    /\ params.affiliate_id = <<RogueAffiliateId>>
    /\ calls = 3
    /\ QueryValues(requested[3], "api_id") = <<TestApiId>>

----------------------------------------------------------------------------
(* The query string, timers, messages and the retry budget of request() *)

\* the keys a caller may set besides the credential keys
CallerKeys == {"cid", "hits", "offset", "keyword"}

\* the entries the query string is expected to hold for key: none when the
\* caller left the key out or passed undefined, else its value as a string
ExpectedValues(ps, key) ==
    IF ps[key] = <<>> THEN <<>>
    ELSE IF key \in NumericKeys THEN <<ToString(ps[key][1])>>
    ELSE IF ps[key] = <<undefined>> THEN <<>>
    ELSE ps[key]

\* C21: a caller parameter whose value is undefined appears in the query
\* string of no network call, and every caller parameter with a defined value
\* (other than the credential keys) appears exactly once, as a string.
C21_QueryHoldsDefinedParamsOnce ==
    \A i \in 1..Len(requested) :
       \A key \in CallerKeys :
          QueryValues(requested[i], key) = ExpectedValues(params, key)

\* a request with an undefined keyword beside a defined page window has been
\* fetched and fetched again after a retry
C21_Witness ==
    /\ pc = "fetch"
    /\ params.keyword = <<undefined>>
    /\ params.hits = <<10>>
    /\ Len(requested) = 2

\* C24: when a request invocation has completed in any way, no timeout timer
\* armed by it is still pending.
C24_NoTimerLeftPending ==
    pc = "done" => ~timeoutId.armed

\* an invocation that was retried and then completed by returning a result,
\* its timer having been armed twice
C24_Witness ==
    /\ pc = "done"
    /\ outcome.kind = "return"
    /\ calls = 2
    /\ ~timeoutId.armed

\* the message names the endpoint of the invocation
NamesEndpoint(m) ==
    includes(m, <<"to", endpoint>>) \/ includes(m, <<"endpoint", endpoint>>)

\* the attempt counts the message states
StatedCounts(m) ==
    {k \in 0..(cfg.maxRetries + 2) : includes(m, <<"after", ToString(k), "attempts">>)}

\* the message is the one of the timeout error
IsTimeoutMessage(m) == includes(m, <<"timed", "out", "after">>)

C29_SharedRetryBudget ==
    /\ calls <= 1 + cfg.maxRetries
    /\ Len(waits) <= cfg.maxRetries
    /\ Len(waits) = attempts
    /\ pc # "idle" => calls = IF pc = "backoff" THEN attempts ELSE attempts + 1

\* a status retry and a transport retry have used up a budget of two, and the
\* third call has failed for good
C29_Witness ==
    /\ pc = "done"
    /\ cfg.maxRetries = 2
    /\ log = <<"429/5xx", "reject", "429/5xx">>
    /\ calls = 3
    /\ Len(waits) = 2
    /\ outcome.kind = "throw"

\* C30 as claimed: an attempt count stated by the final error equals the number
\* of network calls the invocation has made.
C30_CountIsNetworkCalls ==
    (pc = "done" /\ outcome.kind = "throw") =>
       \A k \in StatedCounts(outcome.message) : k = calls

\* C30 amended: an attempt count stated by the final error equals the number
\* of retries the invocation has performed, one less than the number of its
\* network calls.
C30_CountIsRetries ==
    (pc = "done" /\ outcome.kind = "throw") =>
       \A k \in StatedCounts(outcome.message) : k = calls - 1 /\ k = Len(waits)

\* three calls, two retries: the final error says "after 2 attempts"
C30_Witness ==
    /\ pc = "done"
    /\ outcome.kind = "throw"
    /\ calls = 3
    /\ StatedCounts(outcome.message) = {2}

----------------------------------------------------------------------------
(* Properties of client construction *)

\* a credential that is missing or empty
Blank(o) == o = <<>> \/ o = <<"">>

\* nothing has been sent and no request has been entered
NoNetworkActivity ==
    /\ pc = "idle"
    /\ calls = 0
    /\ netCalls = 0
    /\ requested = <<>>

\* C22: constructing a client with apiId or affiliateId missing or empty
\* fails synchronously with 'API ID and Affiliate ID are required.'; no client
\* exists afterwards and no network call is made.
C22_BlankCredentialsFailConstruction ==
    (Blank(clientOptions.apiId) \/ Blank(clientOptions.affiliateId)) =>
       /\ construction.kind = "throw"
       /\ construction.message =
             <<"API", "ID", "and", "Affiliate", "ID", "are", "required">>
       /\ cfg = NoClient
       /\ NoNetworkActivity

\* the constructor was given an empty apiId beside a proper affiliateId, and
\* threw
C22_Witness ==
    /\ clientOptions.apiId = <<"">>
    /\ clientOptions.affiliateId = <<TestAffiliateId>>
    /\ construction.kind = "throw"

\* the baseUrl values of the test-suite that are well-formed http(s) URLs,
\* and those that are not
WellFormedBaseUrls == {HttpBaseUrl, CustomBaseUrl, CustomBaseUrlWithSlash}
MalformedBaseUrls == {EmptyText, InvalidUrlText, FtpBaseUrl}

ClaimedValues(o, d, least) ==
    IF o = <<>> THEN {d} ELSE IF o[1] >= least THEN {o[1]} ELSE {}

\* C28: a client constructed without timeout, maxRetries and retryDelay uses
\* 10000 ms, 3 and 1000 ms; a client constructed with valid values (positive
\* timeout and retryDelay, maxRetries >= 0 including 0) uses exactly those
\* values in every later request: the timeout timer is armed with the timeout
\* and the timeout error states it, a run of 503 answers ends after
\* 1 + maxRetries calls, and the n-th backoff lasts retryDelay * 2^(n-1).
C28_DefaultsAndGivenValuesUsed ==
    construction.kind = "client" =>
       /\ \A t \in ClaimedValues(clientOptions.timeout, 10000, 1) :
             /\ cfg.timeout = t
             /\ timeoutId.armed => timeoutId.remaining <= t
             /\ (pc = "done" /\ LastSettled = "abort") =>
                   includes(outcome.message, <<"after", ToString(t), "ms">>)
       /\ \A m \in ClaimedValues(clientOptions.maxRetries, 3, 0) :
             /\ cfg.maxRetries = m
             /\ attempts <= m
             /\ (pc = "done" /\ AllSettled("429/5xx")) => calls = 1 + m
       /\ \A d \in ClaimedValues(clientOptions.retryDelay, 1000, 1) :
             /\ cfg.retryDelay = d
             /\ \A n \in 1..Len(waits) : waits[n] = d * 2 ^ (n - 1)

\* a client built with maxRetries 0 and the test-suite's timeout and delay has
\* answered a 503 with the final error after one call
C28_Witness ==
    /\ clientOptions.maxRetries = <<0>>
    /\ clientOptions.timeout = <<TestTimeout>>
    /\ clientOptions.retryDelay = <<TestRetryDelay>>
    /\ pc = "done"
    /\ log = <<"429/5xx">>
    /\ calls = 1

----------------------------------------------------------------------------
(* Properties of two invocations on one client *)

\* C25: when two request invocations on the same client run concurrently and
\* the timeout timer of one fires, only that invocation's fetch is aborted:
\* the step leaves the other invocation's controller, fetch, timer, retry
\* counter, histories and outcome as they were, under every interleaving.
C25_TimeoutAbortsOwnFetchOnly ==
    [][TimeoutFire => other' = other]_vars

\* the timeout of one invocation has fired while the other invocation, after a
\* retry, awaits its second fetch with its own timer armed
C25_Witness ==
    /\ pc = "done"
    /\ LastSettled = "abort"
    /\ outcome.kind = "throw"
    /\ other.pc = "fetch"
    /\ other.attempts = 1
    /\ other.timeoutId.armed
    /\ ~other.controller.aborted

\* the records of a page as the driver read it
RecordsOf(a) == IF a.items = <<>> THEN <<>> ELSE a.items[1]

\* the records of the pages as, in order
RECURSIVE AllRecords(_)
AllRecords(as) ==
    IF as = <<>> THEN <<>>
    ELSE AllRecords(SubSeq(as, 1, Len(as) - 1)) \o RecordsOf(as[Len(as)])

\* the offset a driver running alone asks for in its k-th fetch, given the
\* pages as it was answered before
SoloOffset(as, k) ==
    IF k = 1 THEN 1
    ELSE as[k - 1].first_position + Len(RecordsOf(as[k - 1]))

IsPrefix(s, t) == Len(s) <= Len(t) /\ SubSeq(t, 1, Len(s)) = s

\* the invocation with locals and history f has done what a driver running
\* alone does with the pages f.answers: it asked for the offsets these pages
\* lead to, it went on exactly while the total_count of its own first page
\* was not reached, and it yielded these pages' records in order
AsWhenAlone(f) ==
    /\ Len(f.offsets) <= Len(f.answers) + 1
    /\ \A k \in 1..Len(f.offsets) : f.offsets[k] = SoloOffset(f.answers, k)
    /\ IsPrefix(f.yielded, AllRecords(f.answers))
    /\ f.gpc = "awaitPage" =>
          /\ Len(f.offsets) = Len(f.answers) + 1
          /\ f.yielded = AllRecords(f.answers)
          /\ f.params.offset = <<f.offsets[Len(f.offsets)]>>
          /\ Len(f.answers) >= 1 =>
                f.offsets[Len(f.offsets)] <= f.answers[1].total_count[1]
    /\ (f.gpc = "done" /\ f.gout.kind = "return" /\ Len(f.answers) >= 1) =>
          /\ Len(f.offsets) = Len(f.answers)
          /\ \/ RecordsOf(f.answers[Len(f.answers)]) = <<>>
             \/ /\ f.yielded = AllRecords(f.answers)
                /\ SoloOffset(f.answers, Len(f.answers) + 1)
                      > f.answers[1].total_count[1]

\* C26: two getAllItems drivers (or a driver and a direct request) running
\* concurrently on one client do not interfere: under every interleaving each
\* driver asks for the offsets and yields the records that a driver running
\* alone asks for and yields when it is answered the same pages.
C26_DriversDoNotInterfere ==
    /\ AsWhenAlone(Frame)
    /\ AsWhenAlone(other)

\* both drivers have run to their ends, interleaved, one over two pages of a
\* list of MaxTotal records and the other over the one page of a list of one
C26_Witness ==
    /\ gpc = "done"
    /\ other.gpc = "done"
    /\ gout.kind = "return"
    /\ other.gout.kind = "return"
    /\ Len(offsets) = 2
    /\ Len(other.offsets) = 1
    /\ Len(yielded) = MaxTotal
    /\ Len(other.yielded) = 1
    /\ other.pulls >= 2

----------------------------------------------------------------------------
(* Properties of the retry loop's exits *)

\* C31: for every maxRetries >= 0 a request invocation that has been entered
\* has made at least one network call, and it never ends with the error of
\* line 162 that follows the loop.
C31_LoopNeverFallsThrough ==
    (cfg.maxRetries >= 0 /\ pc # "idle") =>
        /\ calls >= 1
        /\ Len(requested) = calls
        /\ outcome # Thrown(UnexpectedEndMessage(endpoint))
        /\ attempts <= cfg.maxRetries

\* the retry budget is used up: the last permitted attempt has failed
C31_Witness ==
    /\ pc = "done"
    /\ cfg.maxRetries = MaxRetriesBound
    /\ attempts = cfg.maxRetries
    /\ calls = cfg.maxRetries + 1
    /\ outcome.kind = "throw"
    /\ LastSettled = "429/5xx"

\* C32 (as claimed): request ends with the Timeout error only if the timeout
\* timer of the current attempt fired and aborted its fetch; an attempt that
\* completed with a response or failed with a transport error that is no
\* abort never ends as a Timeout, whatever its texts say.
C32_TimeoutOnlyWhenTimerFired ==
    (pc = "done" /\ outcome.kind = "throw" /\ IsTimeoutMessage(outcome.message)) =>
        /\ LastSettled = "abort"
        /\ controller.aborted

\* the current response is a failure that is not retried: its status is not
\* retryable, or it is and the retry budget is used up
FinalFailureResponse ==
    /\ Len(log) >= 1
    /\ \/ LastSettled = "other"
       \/ LastSettled = "429/5xx" /\ Len(log) = cfg.maxRetries + 1

\* C33 (as claimed): when the response of a failure that is not retried has a
\* body that is no JSON, no further network call and no backoff wait follows,
\* and the request ends with an error whose message carries the raw body
\* text, or the status line when the body is empty.
C33_UnparsableErrorBodyIsReported ==
    (FinalFailureResponse /\ response.body.kind = "text") =>
        /\ pc \in {"errorBody", "done"}
        /\ calls = Len(log)
        /\ pc = "done" =>
              /\ outcome.kind = "throw"
              /\ includes(outcome.message,
                          IF response.body.text # <<>> THEN response.body.text
                          ELSE statusText(response.status))

----------------------------------------------------------------------------
(* Properties of the page fetches of getAllItems() *)

\* every attempt of the current page fetch failed with a retryable status or
\* a transport error and was treated as such (none ended as a Timeout)
PageFailedRetryably ==
    /\ gpc = "awaitPage"
    /\ pc = "done"
    /\ Len(log) >= 1
    /\ \A i \in 1..Len(log) : log[i] \in {"429/5xx", "reject"}
    /\ ~IsTimeoutMessage(outcome.message)

C35_TotalIsOfFirstPage ==
    /\ pagesServed = 0 <=> totalCount = -1
    /\ pagesServed >= 1 => totalCount = answers[1].total_count[1]
    /\ (gpc = "awaitPage" /\ Len(offsets) >= 2) =>
          /\ currentOffset <= answers[1].total_count[1]
          /\ answers[Len(answers)].items # <<>>
          /\ Len(answers[Len(answers)].items[1]) > 0
    /\ (gpc = "done" /\ gout = GenReturned) =>
          /\ pagesServed >= 1
          /\ LET first == answers[1].total_count[1]
                 last == answers[Len(answers)]
             IN \/ first = 0 /\ pagesServed = 1
                \/ last.items = <<>>
                \/ Len(last.items[1]) = 0
                \/ currentOffset > first

\* the second page reported a total of 1, the first page one of MaxTotal: the
\* driver goes on to a third fetch at offset 3
C35_Witness ==
    /\ gpc = "awaitPage"
    /\ Len(offsets) = 3
    /\ currentOffset = 3
    /\ totalCount = MaxTotal
    /\ page.total_count = 1

\* every page answered so far has records and starts at or after the offset
\* that was requested for it
PagesAdvance ==
    \A k \in 1..Len(answers) :
        /\ answers[k].items # <<>>
        /\ Len(answers[k].items[1]) > 0
        /\ answers[k].first_position >= offsets[k]

OffsetsIncrease == \A k \in 1..(Len(offsets) - 1) : offsets[k] < offsets[k + 1]

\* C36 (as claimed): while every answered page has records and starts at or
\* after the requested offset, the requested offsets are strictly increasing
\* and the number of page fetches is at most the total_count of the first page.
C36_FetchesBoundedByTotal ==
    PagesAdvance =>
        /\ OffsetsIncrease
        /\ Len(answers) >= 1 => Len(offsets) <= answers[1].total_count[1]

\* C36 (amended): ... and the number of page fetches is at most the
\* total_count of the first page, or 1 when that total_count is 0.
C36_FetchesBoundedByTotalOrOne ==
    PagesAdvance =>
        /\ OffsetsIncrease
        /\ \A k \in 1..Len(offsets) : offsets[k] >= k
        /\ Len(answers) >= 1 =>
              Len(offsets) <= IF answers[1].total_count[1] = 0 THEN 1
                              ELSE answers[1].total_count[1]

\* the server skipped ahead: the first page starts after offset 1, the driver
\* follows it, and the run ends at the total after two fetches
C36_Witness ==
    /\ PagesAdvance
    /\ gpc = "done"
    /\ gout = GenReturned
    /\ offsets = <<1, MaxTotal>>
    /\ answers[1].total_count[1] = MaxTotal
    /\ pagesServed = 2

----------------------------------------------------------------------------
(* Properties of the end of a request invocation *)

\* the locals of invocation i, whether it runs or waits
InvocationOf(i) == IF self = i THEN Frame ELSE other

\* the invocation has returned a value or thrown
Delivered(f) == f.outcome.kind # "none"

\* what an invocation does to the outside: its position, its outcome, its
\* network calls, its backoff waits and its timers
Activity(f) ==
    <<f.pc, f.outcome, f.calls, f.requested, f.attempts, f.waits, f.timeoutId, f.backoff>>

\* C37: Success, Terminal failure and Timeout end the invocation: once a
\* request invocation has returned or thrown, it has no timer armed, and in
\* every later step, whatever the other invocation on the client does, it
\* makes no network call, starts no backoff wait, arms no timer and keeps
\* the one outcome it delivered.
C37_OutcomesAreAbsorbing ==
    [][\A i \in {1, 2} :
          Delivered(InvocationOf(i)) =>
              /\ InvocationOf(i).pc = "done"
              /\ ~InvocationOf(i).timeoutId.armed
              /\ ~InvocationOf(i).backoff.armed
              /\ Activity(InvocationOf(i))' = Activity(InvocationOf(i))]_vars

\* one invocation has returned its result; the other one, after a retry, has
\* ended as a Timeout
C37_Witness ==
    /\ InvocationOf(1).outcome.kind = "return"
    /\ InvocationOf(1).calls = 1
    /\ InvocationOf(2).outcome.kind = "throw"
    /\ IsTimeoutMessage(InvocationOf(2).outcome.message)
    /\ InvocationOf(2).calls = 2

\* C38 (as claimed): a request invocation that has been entered eventually
\* returns or throws, provided only that armed timers fire: the server may
\* stay silent before or in the middle of any response.
C38_EveryInvocationEnds == [](pc # "idle" => <>(pc = "done"))

----------------------------------------------------------------------------
(* Properties of the timeout timer of an attempt *)

\* C39: a request invocation has at most one timeout timer armed at any
\* moment: an attempt arms its timer only when the timer of the attempt
\* before is no longer armed, the timer it arms is a fresh one of the full
\* configured timeout with a controller of its own, a timeout timer is armed
\* only while a fetch is awaited, and none is armed during a backoff wait.
C39_OneTimeoutTimerPerAttempt ==
    [][\A i \in {1, 2} :
          LET before == InvocationOf(i)
              after == InvocationOf(i)'
          IN /\ after.calls # before.calls =>
                   /\ after.calls = before.calls + 1
                   /\ ~before.timeoutId.armed
                   /\ after.timeoutId = [armed |-> TRUE, remaining |-> cfg.timeout]
                   /\ after.controller.id # before.controller.id
                   /\ ~after.controller.aborted
             /\ (after.timeoutId.armed /\ ~before.timeoutId.armed) =>
                   after.calls = before.calls + 1
             /\ after.timeoutId.armed => after.pc = "fetch"
             /\ after.pc = "backoff" => ~after.timeoutId.armed]_vars

\* an invocation awaits its second fetch with the full timeout ahead of it,
\* while part of the timeout of the other invocation's fetch has passed
C39_Witness ==
    /\ pc = "fetch"
    /\ calls = 2
    /\ waited = <<cfg.retryDelay>>
    /\ timeoutId = [armed |-> TRUE, remaining |-> cfg.timeout]
    /\ other.pc = "fetch"
    /\ other.timeoutId.armed
    /\ other.timeoutId.remaining < cfg.timeout

====
